---- MODULE Spec2Model ----
(***************************************************************************)
(* A model of generate_data.py: the exclusion filter (should_exclude), the *)
(* indentation tree builder (build_budget_tree_from_excel), the year       *)
(* projection (export_yearly_yaml / filter_for_year), the revenue          *)
(* combinator (combine_net_income_tax) and the script's main sequence.     *)
(*                                                                         *)
(* Strings are sequences of one-character strings, so that substring,      *)
(* strip and case conversion are computed, not assumed.  Floats are exact  *)
(* decimals: a number is a function from powers of 1000 to integer         *)
(* coefficients (value = sum of n[e] * 1000^e), which holds 1e-6 and 1e12  *)
(* side by side.  A missing value (Python None, an absent key) is the      *)
(* empty sequence << >> and a present value v is << v >>.                  *)
(***************************************************************************)
EXTENDS Integers, Sequences, FiniteSets, TLC

\* ------------------------------------------------------------- strings

Lowers == <<"a","b","c","d","e","f","g","h","i","j","k","l","m","n","o","p","q","r","s","t","u","v","w","x","y","z">>
Uppers == <<"A","B","C","D","E","F","G","H","I","J","K","L","M","N","O","P","Q","R","S","T","U","V","W","X","Y","Z">>
Digits == {"0","1","2","3","4","5","6","7","8","9"}

\* str.upper / str.lower, character by character
UpperChar(c) ==
    IF \E i \in 1..Len(Lowers) : Lowers[i] = c
    THEN Uppers[CHOOSE i \in 1..Len(Lowers) : Lowers[i] = c]
    ELSE c
LowerChar(c) ==
    IF \E i \in 1..Len(Uppers) : Uppers[i] = c
    THEN Lowers[CHOOSE i \in 1..Len(Uppers) : Uppers[i] = c]
    ELSE c
Upper(s) == [i \in 1..Len(s) |-> UpperChar(s[i])]
Lower(s) == [i \in 1..Len(s) |-> LowerChar(s[i])]

\* str.strip(): leading and trailing blanks removed
RECURSIVE LStrip(_)
LStrip(s) == IF s # <<>> /\ Head(s) = " " THEN LStrip(Tail(s)) ELSE s
RECURSIVE RStrip(_)
RStrip(s) ==
    IF s # <<>> /\ s[Len(s)] = " " THEN RStrip(SubSeq(s, 1, Len(s) - 1)) ELSE s
Strip(s) == RStrip(LStrip(s))

\* `sub in s` on strings
Contains(s, sub) ==
    \E i \in 0..(Len(s) - Len(sub)) : \A j \in 1..Len(sub) : s[i + j] = sub[j]
\* s.startswith(p)
StartsWith(s, p) == Len(s) >= Len(p) /\ SubSeq(s, 1, Len(p)) = p
\* str.isdigit()
IsDigits(s) == s # <<>> /\ \A i \in 1..Len(s) : s[i] \in Digits

\* `x in xs` on a list
InSeq(x, xs) == \E i \in 1..Len(xs) : xs[i] = x

\* ------------------------------------------------------------- numbers

Exps == -3..4
Zero == [e \in Exps |-> 0]
\* c * 1000^k
Limb(k, c) == [e \in Exps |-> IF e = k THEN c ELSE 0]
Add(a, b) == [e \in Exps |-> a[e] + b[e]]
Neg(a) == [e \in Exps |-> 0 - a[e]]
Sub(a, b) == Add(a, Neg(b))
\* a * 1000^k
Scale(a, k) == [e \in Exps |-> IF (e - k) \in Exps THEN a[e - k] ELSE 0]
\* the digit of t in -499..500, and the carry it leaves
Bal(t) == ((t + 499) % 1000) - 499
RECURSIVE CarryIn(_, _)
CarryIn(x, e) ==
    IF e = -3 THEN 0
    ELSE LET t == x[e - 1] + CarryIn(x, e - 1) IN (t - Bal(t)) \div 1000
Balanced(x) ==
    [e \in Exps |-> LET t == x[e] + CarryIn(x, e) IN IF e = 4 THEN t ELSE Bal(t)]
\* x > 0
Positive(x) ==
    LET b == Balanced(x)
        nz == {e \in Exps : b[e] # 0}
    IN  nz # {} /\ b[CHOOSE e \in nz : \A f \in nz : f <= e] > 0
\* sum(xs) of a list of numbers
RECURSIVE NumSum(_)
NumSum(xs) == IF xs = <<>> THEN Zero ELSE Add(Head(xs), NumSum(Tail(xs)))

\* ------------------------------------------------------ should_exclude

S_Total == <<"T","o","t","a","l">>
S_total == <<"t","o","t","a","l">>
S_underlying == <<"(","u","n","d","e","r","l","y","i","n","g"," ","b","a","s","i","s",")">>
S_ASL == <<"A","S","L">>

excluded_phrases == <<S_Total, S_total, S_underlying>>


NameExcluded(name) ==
    \E i \in 1..Len(excluded_phrases) : Contains(name, excluded_phrases[i])

\* the unit test of should_exclude without the strip
UnitExcludedNoStrip(unit) == unit # <<>> /\ Upper(unit[1]) = S_ASL

UnitExcluded(unit) == unit # <<>> /\ Upper(Strip(unit[1])) = S_ASL

\* should_exclude(name, unit): unit is << >> for None, << u >> otherwise
should_exclude(name, unit) == NameExcluded(name) \/ UnitExcluded(unit)

\* ------------------------------------------------------ the worksheet

\* A cell value: None, a text or a number.  A row is its cells (column 0 first)
\* and the indent of its first cell's alignment; a sheet is its rows, row 1 first.
NoneCell == [t |-> "none"]
Text(s) == [t |-> "text", s |-> s]
Number(v) == [t |-> "num", v |-> v]

\* Python truthiness of a cell value
Truthy(cell) ==
    \/ cell.t = "text" /\ cell.s # <<>>
    \/ cell.t = "num" /\ cell.v # Zero

\* str(value): a text is itself, None is "None"; a number's numeral is not
\* spelled out digit by digit (no label, phrase or name of the model is one)
Str(cell) ==
    CASE cell.t = "text" -> cell.s
      [] cell.t = "none" -> <<"N","o","n","e">>
      [] OTHER -> <<"#">>

\* re.compile(r"^\d{4}-\d{2,4}$").match
year_pattern(s) ==
    /\ Len(s) \in 7..9
    /\ IsDigits(SubSeq(s, 1, 4))
    /\ s[5] = "-"
    /\ IsDigits(SubSeq(s, 6, Len(s)))

HeaderScanRows == 20
MinYearCells == 3

\* a cell that counts towards the header row
YearCell(cell) == Truthy(cell) /\ cell.t = "text" /\ year_pattern(Strip(cell.s))
YearCellCount(row) ==
    Cardinality({i \in 1..Len(row.cells) : YearCell(row.cells[i])})


\* header_row_idx: the 0-based index of the first of the first 20 rows with more
\* than 3 year cells, << >> when there is none
FindHeaderRow(ws) ==
    LET last == IF Len(ws) < HeaderScanRows THEN Len(ws) ELSE HeaderScanRows
        found == {i \in 1..last : YearCellCount(ws[i]) > MinYearCells}
    IN  IF found = {} THEN <<>>
        ELSE << (CHOOSE i \in found : \A j \in found : i <= j) - 1 >>

\* sval = str(val).strip() if val else ""
Sval(cell) == IF Truthy(cell) THEN Strip(Str(cell)) ELSE <<>>

\* year_col_indices: the 0-based columns whose header text is in years
RECURSIVE YearColIndices(_, _, _)
YearColIndices(headers, yrs, idx) ==
    IF idx >= Len(headers) THEN <<>>
    ELSE (IF InSeq(Sval(headers[idx + 1]), yrs) THEN <<idx>> ELSE <<>>)
         \o YearColIndices(headers, yrs, idx + 1)

\* ------------------------------------------------------ the tree builder

S_nan == <<"n","a","n">>
S_m == <<"$","m">>
S_t == <<"$","t">>
S_b == <<"$","b">>
S_k == <<"$","k">>
S_Root == <<"A","u","s","t","r","a","l","i","a","n"," ","G","o","v","e","r","n","m","e","n","t"," ","B","u","d","g","e","t">>

\* cell.value is None or str(cell.value).strip().lower().startswith("nan")
NameCellSkipped(cell) ==
    cell.t = "none" \/ StartsWith(Lower(Strip(Str(cell))), S_nan)

RowName(row) == Strip(Str(row.cells[1]))
\* unit = str(unit_cell.value).strip() if unit_cell and unit_cell.value else "$m"
RowUnit(row) ==
    IF Truthy(row.cells[2]) THEN Strip(Str(row.cells[2])) ELSE S_m

\* the row loop with its second `continue` (the exclusion filter) left out
RowSkippedNameCellOnly(row) == NameCellSkipped(row.cells[1])

\* the two `continue`s of the row loop
RowSkipped(row) ==
    NameCellSkipped(row.cells[1]) \/ should_exclude(RowName(row), <<RowUnit(row)>>)

\* unit_multipliers.get(unit, 1), as a power of 1000
MultiplierExp(unit) ==
    CASE unit = S_t -> 4
      [] unit = S_m -> 2
      [] unit = S_b -> 3
      [] unit = S_k -> 1
      [] OTHER -> 0

\* float(val): a number converts, a text of the model is no numeral and raises
Float(cell) == IF cell.t = "num" THEN <<cell.v>> ELSE <<>>

\* row[idx].value if idx < len(row) else None
CellAt(row, idx) == IF idx < Len(row.cells) THEN row.cells[idx + 1] ELSE NoneCell


\* zip(year_col_indices, years): the k-th matching column goes with the k-th
\* label, up to the shorter of the two lists (years holds no label twice)
PairsByZip(cols, yrs, headers) ==
    LET m == IF Len(cols) < Len(yrs) THEN Len(cols) ELSE Len(yrs)
    IN  [y \in {yrs[k] : k \in 1..m} |-> cols[CHOOSE k \in 1..m : yrs[k] = y]]

\* the label -> column pairs the row loop reads
YearPairs(cols, yrs, headers) == PairsByZip(cols, yrs, headers)

\* budgets: the scaled value of every paired column that holds a number
Budgets(row, cols, yrs, headers) ==
    LET pairs == YearPairs(cols, yrs, headers)
        stored == {y \in DOMAIN pairs : Float(CellAt(row, pairs[y])) # <<>>}
    IN  [y \in stored |->
           Scale(Float(CellAt(row, pairs[y]))[1], MultiplierExp(RowUnit(row)))]

\* row.alignment.indent, 0 when unset
RowIndent(row) == row.indent

\* the pop loop with a strict test: an equal indent stays on the stack
RECURSIVE PopWhileGreater(_, _)
PopWhileGreater(stk, indent) ==
    IF stk # <<>> /\ stk[Len(stk)].indent > indent
    THEN PopWhileGreater(SubSeq(stk, 1, Len(stk) - 1), indent)
    ELSE stk

\* while stack and stack[-1][0] >= indent: stack.pop()
RECURSIVE PopWhile(_, _)
PopWhile(stk, indent) ==
    IF stk # <<>> /\ stk[Len(stk)].indent >= indent
    THEN PopWhile(SubSeq(stk, 1, Len(stk) - 1), indent)
    ELSE stk

EmptyBudget == [y \in {} |-> Zero]
RootNode ==
    [name |-> S_Root, unit |-> <<>>, budget |-> EmptyBudget, children |-> <<>>,
     siblings |-> <<>>]
\* node = {"name": name, "unit": unit, "budget": budgets, "children": []}; an
\* absent "budget" key is the empty mapping (every read is .get or `in`)
NewNode(row, cols, yrs, headers) ==
    [name |-> RowName(row), unit |-> <<RowUnit(row)>>,
     budget |-> Budgets(row, cols, yrs, headers), children |-> <<>>,
     siblings |-> <<>>]

\* the heap t with node `node` added under parent p (as p's last child)
Attach(t, p, node) ==
    LET id == Cardinality(DOMAIN t)
    IN  [n \in (DOMAIN t) \cup {id} |->
           IF n = id THEN node
           ELSE IF n = p THEN [t[n] EXCEPT !.children = Append(@, id)]
           ELSE t[n]]

\* data_start = header_row_idx + 1, handed to iter_rows(min_row=...), which
\* counts rows from 1: the first row iterated is the header row itself
DataStart(idx) == idx + 1

\* ------------------------------------------------------ the projection

\* the dict rooted at node n of heap t, children nested
RECURSIVE Nested(_, _)
Nested(t, n) ==
    [name |-> t[n].name, unit |-> t[n].unit, budget |-> t[n].budget,
     children |-> [i \in 1..Len(t[n].children) |-> Nested(t, t[n].children[i])]]

\* node.get("unit", unit)
UnitOr(node, unit) == IF node.unit # <<>> THEN node.unit ELSE unit

\* 1e-6
Tolerance == Limb(-2, 1)
\* d != 0, a comparison with no tolerance
AbsNonZero(d) == Balanced(d) # Zero
\* abs(d) > 1e-6
AbsExceedsTolerance(d) ==
    Positive(Sub(d, Tolerance)) \/ Positive(Sub(Neg(d), Tolerance))

\* the child filter keeping every child that was not excluded
SurvivesAlways(c) == c # <<>>
\* c and ("budget" in c or c.get("children")), c being << >> for None
Survives(c) == c # <<>> /\ (c[1].budget # <<>> \/ c[1].children # <<>>)

\* a projection that emits what is left of the parent's value over its children's
EmittedRemainder(node, year, children) ==
    IF year \in DOMAIN node.budget
    THEN LET parent_val == node.budget[year]
         IN  IF children # <<>> /\ \A i \in 1..Len(children) : children[i].budget # <<>>
             THEN LET children_sum ==
                          NumSum([i \in 1..Len(children) |-> children[i].budget[1]])
                  IN  IF AbsExceedsTolerance(Sub(parent_val, children_sum))
                      THEN <<Sub(parent_val, children_sum)>> ELSE <<>>
             ELSE <<parent_val>>
    ELSE <<>>

\* the value new_node gets: << >> when no "budget" key is set
EmittedBudget(node, year, children) ==
    IF year \in DOMAIN node.budget
    THEN LET parent_val == node.budget[year]
         IN  IF children # <<>> /\ \A i \in 1..Len(children) : children[i].budget # <<>>
             THEN LET children_sum ==
                          NumSum([i \in 1..Len(children) |-> children[i].budget[1]])
                  IN  IF AbsExceedsTolerance(Sub(parent_val, children_sum))
                      THEN <<parent_val>> ELSE <<>>
             ELSE <<parent_val>>
    ELSE <<>>

\* filter_for_year(node, year, unit): << >> for None, else << new_node >> with
\* new_node = [name, children, budget]; an unset "children" key is the empty list
\* and an unset "budget" key is << >>
RECURSIVE filter_for_year(_, _, _)
filter_for_year(node, year, unit) ==
    IF should_exclude(node.name, UnitOr(node, unit)) THEN <<>>
    ELSE LET all == [i \in 1..Len(node.children) |->
                       filter_for_year(node.children[i], year,
                                       UnitOr(node.children[i], unit))]
             kept == SelectSeq(all, Survives)
             children == [i \in 1..Len(kept) |-> kept[i][1]]
         IN  << [name |-> node.name, children |-> children,
                 budget |-> EmittedBudget(node, year, children)] >>

\* the nodes reachable from n through children lists
RECURSIVE Descendants(_, _)
Descendants(t, n) ==
    {n} \cup UNION {Descendants(t, t[n].children[i]) : i \in 1..Len(t[n].children)}

\* the node whose children list holds n
ParentOf(t, n) ==
    CHOOSE p \in DOMAIN t : \E i \in 1..Len(t[p].children) : t[p].children[i] = n

\* add_siblings(tree): every node below the root gets "_siblings", its parent's
\* other children
add_siblings(t) ==
    LET below == Descendants(t, 0) \ {0}
        Others(n) == LET ch == t[ParentOf(t, n)].children
                         IsOther(c) == c # n
                     IN  SelectSeq(ch, IsOther)
    IN  [n \in DOMAIN t |->
           IF n \in below THEN [t[n] EXCEPT !.siblings = <<Others(n)>>] ELSE t[n]]

\* f"Australian Government Budget {year}"
DocName(year) == S_Root \o <<" ">> \o year

\* out = filter_for_year(tree, year); out["name"] = ...
YearDocument(t, year) ==
    [filter_for_year(Nested(t, 0), year, <<>>)[1] EXCEPT !.name = DocName(year)]

\* ------------------------------------------------------ the combinator

S_IOWT == <<"I","n","d","i","v","i","d","u","a","l","s"," ","a","n","d"," ","o","t","h","e","r"," ","w","i","t","h","h","o","l","d","i","n","g"," ","t","a","x","e","s">>
S_Gross == <<"G","r","o","s","s"," ","i","n","c","o","m","e"," ","t","a","x"," ","w","i","t","h","h","o","l","d","i","n","g">>
S_Refunds == <<"I","n","d","i","v","i","d","u","a","l","s"," ","r","e","f","u","n","d","s">>
S_Net == <<"N","e","t"," ","i","n","c","o","m","e"," ","t","a","x">>

\* d.get(y, 0) on a budget mapping
GetOrZero(budget, y) == IF y \in DOMAIN budget THEN budget[y] ELSE Zero

\* [sub for i, sub in enumerate(s) if i not in drop], from position i on
RECURSIVE WithoutIndices(_, _, _)
WithoutIndices(s, drop, i) ==
    IF i > Len(s) THEN <<>>
    ELSE (IF i \in drop THEN <<>> ELSE <<s[i]>>) \o WithoutIndices(s, drop, i + 1)

\* the rebuilt children list with the net node put first
NetFirst(kept, id) == <<id>> \o kept
\* new_children.append(net_node)
NetLast(kept, id) == Append(kept, id)

\* the body of the second loop of combine_net_income_tax for one child c
MergeChild(t, c, yrs) ==
    IF t[c].name = S_IOWT /\ t[c].children # <<>>
    THEN LET subs == t[c].children
             gs == {i \in 1..Len(subs) : t[subs[i]].name = S_Gross}
             rs == {i \in 1..Len(subs) : t[subs[i]].name = S_Refunds}
         IN  IF gs # {} /\ rs # {}
             THEN LET gross_idx == CHOOSE i \in gs : \A j \in gs : j <= i
                      refunds_idx == CHOOSE i \in rs : \A j \in rs : j <= i
                      gross == t[subs[gross_idx]]
                      refunds == t[subs[refunds_idx]]
                      net_budgets ==
                          [y \in {yrs[k] : k \in 1..Len(yrs)} |->
                             Add(GetOrZero(gross.budget, y), GetOrZero(refunds.budget, y))]
                      id == Cardinality(DOMAIN t)
                      net_node == [name |-> S_Net, unit |-> <<>>, budget |-> net_budgets,
                                   children |-> <<>>, siblings |-> <<>>]
                      new_children ==
                          NetLast(WithoutIndices(subs, {gross_idx, refunds_idx}, 1), id)
                  IN  [n \in (DOMAIN t) \cup {id} |->
                         IF n = id THEN net_node
                         ELSE IF n = c THEN [t[n] EXCEPT !.children = new_children]
                         ELSE t[n]]
             ELSE t
    ELSE t

RECURSIVE MergeEach(_, _, _)
MergeEach(t, kids, yrs) ==
    IF kids = <<>> THEN t ELSE MergeEach(MergeChild(t, Head(kids), yrs), Tail(kids), yrs)

\* combine_net_income_tax(node) on heap t: the children first, then the node's own
\* children are searched
RECURSIVE combine_net_income_tax(_, _, _)
RECURSIVE CombineEach(_, _, _)
CombineEach(t, kids, yrs) ==
    IF kids = <<>> THEN t
    ELSE CombineEach(combine_net_income_tax(t, Head(kids), yrs), Tail(kids), yrs)
combine_net_income_tax(t, n, yrs) ==
    IF t[n].children = <<>> THEN t
    ELSE MergeEach(CombineEach(t, t[n].children, yrs), t[n].children, yrs)

\* ------------------------------------------------------ main: year labels

\* the characters of the model in code-point order
CharOrder == <<" ","#","$","%","(",")","-","/","0","1","2","3","4","5","6","7","8","9","A","B","C","D","E","F","G","H","I","J","K","L","M","N","O","P","Q","R","S","T","U","V","W","X","Y","Z","a","b","c","d","e","f","g","h","i","j","k","l","m","n","o","p","q","r","s","t","u","v","w","x","y","z">>
Ord(c) == CHOOSE i \in 1..Len(CharOrder) : CharOrder[i] = c
\* a < b on strings
RECURSIVE StrLess(_, _)
StrLess(a, b) ==
    IF b = <<>> THEN FALSE
    ELSE IF a = <<>> THEN TRUE
    ELSE IF Head(a) = Head(b) THEN StrLess(Tail(a), Tail(b))
    ELSE Ord(Head(a)) < Ord(Head(b))
\* sorted(S)
RECURSIVE Sorted(_)
Sorted(S) ==
    IF S = {} THEN <<>>
    ELSE LET m == CHOOSE x \in S : \A y \in S : x = y \/ StrLess(x, y)
         IN  <<m>> \o Sorted(S \ {m})

\* str(val) of a pandas cell: an empty cell reads as NaN
PandasStr(cell) == IF cell.t = "none" THEN S_nan ELSE Str(cell)
\* the two tests of the label loop
IsYearLabel(sval) ==
    \/ Len(sval) = 7 /\ IsDigits(SubSeq(sval, 1, 4)) /\ sval[5] = "-"
    \/ Len(sval) = 4 /\ IsDigits(sval)
\* years = sorted(set(labels of the row))
YearsOfRow(row) ==
    Sorted({Strip(PandasStr(row.cells[i])) : i \in
              {j \in 1..Len(row.cells) : IsYearLabel(Strip(PandasStr(row.cells[j])))}})
\* raw.iloc[2]: the 0-based index of the row the labels are read from
YearLabelRowIdx == 2

\* ------------------------------------------------------ state

VARIABLES
    sheets,            \* the workbook: [budget |-> sheet, revenue |-> sheet]
    phase,             \* the sheet being processed: "budget" or "revenue"
    pc,                \* the position in the script
    error,             \* the exception that ended the run, "" if none
    years,             \* the years list handed to the builder and the exporter
    header_row_idx,    \* build_budget_tree_from_excel's local
    year_col_indices,  \* build_budget_tree_from_excel's local
    rowNo,             \* the next row (counted from 1) of the row loop
    tree,              \* the heap of node dicts: node id -> dict, 0 is root
    stack,             \* the builder's stack of [indent, node]
    origin,            \* node id -> the row it was built from (0: none)
    yearNo,            \* the next position in years of the export loop
    written,           \* the documents written, in order
    arg_name,          \* should_exclude's last arguments and result
    arg_unit,
    ret

vars == <<sheets, phase, pc, error, years, header_row_idx, year_col_indices, rowNo,
          tree, stack, origin, yearNo, written, arg_name, arg_unit, ret>>

buildVars == <<header_row_idx, year_col_indices, rowNo, tree, stack, origin>>
callVars == <<arg_name, arg_unit, ret>>

ws == sheets[phase]
\* headers = [cell.value for cell in ws[header_row_idx + 1]]
headers == ws[header_row_idx + 1].cells

\* ------------------------------------------------------ actions

\* lines 190-199 and 220-229: the year labels of the sheet's third row
ReadYears ==
    /\ pc = "read_years"
    /\ IF Len(ws) <= YearLabelRowIdx
       THEN /\ pc' = "raised"
            /\ error' = "IndexError"
            /\ UNCHANGED years
       ELSE /\ years' = YearsOfRow(ws[YearLabelRowIdx + 1])
            /\ pc' = "find_header"
            /\ UNCHANGED error
    /\ UNCHANGED <<sheets, phase, buildVars, yearNo, written, callVars>>

\* lines 52-74: the header scan, the year columns, the empty tree
FindHeader ==
    /\ pc = "find_header"
    /\ LET h == FindHeaderRow(ws)
       IN  IF h = <<>>
           THEN /\ pc' = "raised"
                /\ error' = "RuntimeError"
                /\ UNCHANGED buildVars
           ELSE /\ header_row_idx' = h[1]
                /\ year_col_indices' = YearColIndices(ws[h[1] + 1].cells, years, 0)
                /\ rowNo' = DataStart(h[1])
                /\ tree' = [n \in {0} |-> RootNode]
                /\ stack' = <<>>
                /\ origin' = [n \in {0} |-> 0]
                /\ pc' = "rows"
                /\ UNCHANGED error
    /\ UNCHANGED <<sheets, phase, years, yearNo, written, callVars>>

\* lines 75-112: one iteration of the row loop
ProcessRow ==
    /\ pc = "rows"
    /\ rowNo <= Len(ws)
    /\ LET row == ws[rowNo]
       IN  IF RowSkipped(row)
           THEN UNCHANGED <<tree, stack, origin>>
           ELSE LET indent == RowIndent(row)
                    node == NewNode(row, year_col_indices, years, headers)
                    popped == PopWhile(stack, indent)
                    parent == IF popped = <<>> THEN 0 ELSE popped[Len(popped)].node
                    id == Cardinality(DOMAIN tree)
                IN  /\ tree' = Attach(tree, parent, node)
                    /\ stack' = Append(popped, [indent |-> indent, node |-> id])
                    /\ origin' = [n \in (DOMAIN tree) \cup {id} |->
                                    IF n = id THEN rowNo ELSE origin[n]]
    /\ rowNo' = rowNo + 1
    /\ UNCHANGED <<sheets, phase, pc, error, years, header_row_idx, year_col_indices,
                   yearNo, written, callVars>>

\* line 113: the builder returns; the revenue tree goes through the combinator
BuildReturn ==
    /\ pc = "rows"
    /\ rowNo > Len(ws)
    /\ pc' = IF phase = "revenue" THEN "combine" ELSE "add_siblings"
    /\ UNCHANGED <<sheets, phase, error, years, buildVars, yearNo, written, callVars>>

\* line 274: combine_net_income_tax(tree_rev)
Combine ==
    /\ pc = "combine"
    /\ tree' = combine_net_income_tax(tree, 0, years)
    /\ origin' = [n \in DOMAIN tree' |-> IF n \in DOMAIN origin THEN origin[n] ELSE 0]
    /\ pc' = "add_siblings"
    /\ UNCHANGED <<sheets, phase, error, years, header_row_idx, year_col_indices, rowNo,
                   stack, yearNo, written, callVars>>

\* lines 123 and 167: export_yearly_yaml up to its loop
AddSiblings ==
    /\ pc = "add_siblings"
    /\ tree' = add_siblings(tree)
    /\ yearNo' = 1
    /\ pc' = "export"
    /\ UNCHANGED <<sheets, phase, error, years, header_row_idx, year_col_indices, rowNo,
                   stack, origin, written, callVars>>

\* lines 170-175: one iteration of the export loop
ExportYear ==
    /\ pc = "export"
    /\ yearNo <= Len(years)
    /\ written' = Append(written, [sheet |-> phase, year |-> years[yearNo],
                                   doc |-> YearDocument(tree, years[yearNo])])
    /\ yearNo' = yearNo + 1
    /\ UNCHANGED <<sheets, phase, pc, error, years, buildVars, callVars>>

\* export_yearly_yaml returns
ExportReturn ==
    /\ pc = "export"
    /\ yearNo > Len(years)
    /\ pc' = "exported"
    /\ UNCHANGED <<sheets, phase, error, years, buildVars, yearNo, written, callVars>>

\* lines 214-220: main goes on to the revenue sheet
StartRevenue ==
    /\ pc = "exported"
    /\ phase = "budget"
    /\ phase' = "revenue"
    /\ pc' = "read_years"
    /\ UNCHANGED <<sheets, error, years, buildVars, yearNo, written, callVars>>

\* lines 284-286: main ends
Finish ==
    /\ pc = "exported"
    /\ phase = "revenue"
    /\ pc' = "done"
    /\ UNCHANGED <<sheets, phase, error, years, buildVars, yearNo, written, callVars>>

\* A call of should_exclude on one (name, unit) pair
CallShouldExclude(names, units) ==
    /\ pc = "call"
    /\ \E n \in names, u \in units :
         /\ arg_name' = n
         /\ arg_unit' = u
         /\ ret' = should_exclude(n, u)
    /\ UNCHANGED <<sheets, phase, pc, error, years, buildVars, yearNo, written>>

\* ------------------------------------------------------ inputs

MaxRows == 3
MaxIndent == 2
MaxSubRows == 4

Y1 == <<"2","0","2","1","-","2","2">>
Y2 == <<"2","0","2","2","-","2","3">>
Y3 == <<"2","0","2","3","-","2","4">>
Y4 == <<"2","0","2","4","-","2","5">>
Y5 == <<"2","0","2","5","-","2","6">>

S_Item == <<"I","t","e","m">>
S_Health == <<"H","e","a","l","t","h">>
S_TotalExpenses == <<"T","o","t","a","l"," ","e","x","p","e","n","s","e","s">>
S_NaNRow == <<"N","a","N"," ","r","o","w">>
S_asl == <<" ","a","s","l"," ">>
S_percent == <<"%">>
S_na == <<"n","/","a">>
S_Other == <<"O","t","h","e","r"," ","t","a","x","e","s">>

\* whole numbers, and 1e8 + 5e-7: half the tolerance away from 1e8
Whole(c) == Limb(0, c)
NearBelow == [e \in Exps |-> IF e = 2 THEN 100 ELSE IF e = -3 THEN 500 ELSE 0]

\* a row: name cell, unit cell, then the four year columns
Row(indent, name, unit, c1, c2, c3, c4) ==
    [indent |-> indent, cells |-> <<name, unit, c1, c2, c3, c4>>]
HeaderRow(first) ==
    Row(0, first, NoneCell, Text(Y1), Text(Y2), Text(Y3), Text(Y4))
TitleRow == Row(0, Text(S_Item), NoneCell, NoneCell, NoneCell, NoneCell, NoneCell)
BlankRow == Row(0, NoneCell, NoneCell, NoneCell, NoneCell, NoneCell, NoneCell)

\* rows for the shape of the tree: built rows at every indent, and one row for
\* each way of being skipped
TreeRows ==
    {Row(i, Text(S_Health), NoneCell, Number(Whole(1)), NoneCell, NoneCell, NoneCell) :
        i \in 0..MaxIndent}
    \cup {Row(0, NoneCell, NoneCell, Number(Whole(1)), NoneCell, NoneCell, NoneCell),
          Row(0, Text(S_NaNRow), NoneCell, Number(Whole(1)), NoneCell, NoneCell, NoneCell),
          Row(0, Text(S_TotalExpenses), NoneCell, Number(Whole(1)), NoneCell, NoneCell, NoneCell),
          Row(0, Text(S_Health), Text(S_asl), Number(Whole(1)), NoneCell, NoneCell, NoneCell)}

\* a title row or none, a header row with or without a text in its first cell,
\* then the rows
TreeSheet(lead, first, rows) == lead \o <<HeaderRow(first)>> \o rows

InitCommon ==
    /\ error = ""
    /\ header_row_idx = 0
    /\ year_col_indices = <<>>
    /\ rowNo = 0
    /\ tree = [n \in {0} |-> RootNode]
    /\ stack = <<>>
    /\ origin = [n \in {0} |-> 0]
    /\ yearNo = 0
    /\ written = <<>>
    /\ arg_name = <<>>
    /\ arg_unit = <<>>
    /\ ret = FALSE

\* build_budget_tree_from_excel and export_yearly_yaml called on one sheet
NextBuild ==
    \/ FindHeader
    \/ ProcessRow
    \/ BuildReturn
    \/ AddSiblings
    \/ ExportYear
    \/ ExportReturn

InitTree ==
    /\ \E lead \in {<<>>, <<TitleRow>>}, first \in {NoneCell, Text(S_Item)} :
         \E n \in 0..MaxRows : \E rows \in [1..n -> TreeRows] :
            sheets = [budget |-> TreeSheet(lead, first, rows), revenue |-> <<>>]
    /\ phase = "budget"
    /\ pc = "find_header"
    /\ years = <<Y1>>
    /\ InitCommon

SpecTree == InitTree /\ [][NextBuild]_vars

\* ------------------------------------------------------ the tree's shape

Built == (DOMAIN tree) \ {0}
\* the indent of the row a node was built from
NodeIndent(n) == RowIndent(ws[origin[n]])
\* the rows the row loop has gone through
Processed == {r \in 1..Len(ws) : DataStart(header_row_idx) <= r /\ r < rowNo}
\* a row the builder is to skip: no name, a "nan" name, or an excluded (name, unit)
ToBeSkipped(row) ==
    \/ row.cells[1].t = "none"
    \/ StartsWith(Lower(Strip(Str(row.cells[1]))), S_nan)
    \/ should_exclude(RowName(row), <<RowUnit(row)>>)

\* C1: in the tree being built and in the tree returned, every node below a
\* non-root parent has an indent strictly greater than that parent's, and every
\* children list holds its nodes in the order of their source rows.
C1_TreeShape ==
    \A p \in DOMAIN tree :
        LET ch == tree[p].children
        IN  /\ \A i \in 1..Len(ch) : p # 0 => NodeIndent(ch[i]) > NodeIndent(p)
            /\ \A i, j \in 1..Len(ch) : i < j => origin[ch[i]] < origin[ch[j]]

\* a returned tree in which a node below the root has two children
C1_Witness ==
    /\ pc = "add_siblings"
    /\ \E p \in Built : Len(tree[p].children) >= 2

\* C9: the parent of every built node is the latest earlier-built node of strictly
\* smaller indent, or the root when there is none; a row becomes a node exactly when
\* it is not to be skipped; and during the row loop the stack is the chain from a
\* child of the root down to the last built node, whatever rows were skipped since.
C9_NearestShallower ==
    /\ \A n \in Built :
         LET shallower == {m \in Built : origin[m] < origin[n]
                                          /\ NodeIndent(m) < NodeIndent(n)}
         IN  ParentOf(tree, n) =
               IF shallower = {} THEN 0
               ELSE CHOOSE m \in shallower : \A k \in shallower : origin[k] <= origin[m]
    /\ pc = "rows" =>
         /\ \A r \in Processed : (\E n \in Built : origin[n] = r) <=> ~ToBeSkipped(ws[r])
         /\ (Built = {}) <=> (stack = <<>>)
         /\ stack # <<>> =>
              /\ stack[Len(stack)].node = CHOOSE n \in Built : \A m \in Built : m <= n
              /\ ParentOf(tree, stack[1].node) = 0
              /\ \A i \in 2..Len(stack) :
                   ParentOf(tree, stack[i].node) = stack[i - 1].node
              /\ \A i \in 1..Len(stack) : stack[i].indent = NodeIndent(stack[i].node)

\* a node built right after a skipped row and attached below an earlier node
C9_Witness ==
    /\ pc = "rows"
    /\ \E n \in Built :
         /\ origin[n] - 1 \in Processed
         /\ ToBeSkipped(ws[origin[n] - 1])
         /\ ParentOf(tree, n) # 0
         /\ origin[ParentOf(tree, n)] < origin[n] - 1

\* C10: no node of the tree and no stack entry comes from the header row or from a
\* row above it.
C10_OnlyRowsBelowHeader ==
    pc \in {"rows", "add_siblings", "export", "exported"} =>
        /\ \A n \in Built : origin[n] > header_row_idx + 1
        /\ \A i \in 1..Len(stack) : origin[stack[i].node] > header_row_idx + 1

\* ------------------------------------------------------ the projection's claims

\* what a row carries in its unit cell and its first year column
Payloads ==
    {[unit |-> NoneCell, val |-> NoneCell]}
    \cup {[unit |-> NoneCell, val |-> Number(Whole(c))] : c \in {30, 40, 60, 100}}
    \cup {[unit |-> Text(S_percent), val |-> Number(NearBelow)]}

\* indents of an outline: the first row at 0, no row more than one level below
\* the row before it (every ordered tree of depth up to MaxIndent + 1 comes from
\* such rows)
Outline(ind) ==
    \A k \in DOMAIN ind : ind[k] <= (IF k = 1 THEN 0 ELSE ind[k - 1] + 1)

\* rows named "A", "B", ... by position, with a payload each and a 7 in the second
\* year column
ProjectSheet(ind, pay) ==
    <<HeaderRow(NoneCell)>> \o
      [k \in DOMAIN ind |-> Row(ind[k], Text(<<Uppers[k]>>), pay[k].unit, pay[k].val,
                                Number(Whole(7)), NoneCell, NoneCell)]

InitProject ==
    /\ \E n \in 0..MaxRows :
         \E ind \in [1..n -> 0..MaxIndent], pay \in [1..n -> Payloads] :
            /\ Outline(ind)
            /\ sheets = [budget |-> ProjectSheet(ind, pay), revenue |-> <<>>]
    /\ phase = "budget"
    /\ pc = "find_header"
    /\ years = <<Y1, Y2>>
    /\ InitCommon

SpecProject == InitProject /\ [][NextBuild]_vars

YearSet == {years[k] : k \in 1..Len(years)}
Reachable == Descendants(tree, 0)

\* |d| <= 1e-6, read off the digits of d
WithinTolerance(d) ==
    LET b == Balanced(d)
    IN  /\ \A e \in Exps : e > -2 => b[e] = 0
        /\ b[-2] \in {-1, 0, 1}
        /\ b[-2] = 1 => b[-3] <= 0
        /\ b[-2] = -1 => b[-3] >= 0

\* the values the children of a document node carry
ChildValues(d) == [i \in 1..Len(d.children) |-> d.children[i].budget]

\* C3: for every node of the tree being exported and every year, with v the node's
\* recorded value and the surviving children those of its projection: no v, no
\* emitted value; some surviving child and all of them valued, v is emitted exactly
\* when it differs from their sum by more than 1e-6; otherwise v is emitted as it
\* is.  100 over 60 and 40 emits nothing, 100 over 60 and 30 emits 100.
C3_EmittedValue ==
    pc = "exported" =>
      \A n \in Reachable : \A y \in YearSet :
        LET r == filter_for_year(Nested(tree, n), y, <<>>)
            rec == tree[n].budget
            vals == ChildValues(r[1])
            allValued == vals # <<>> /\ \A i \in 1..Len(vals) : vals[i] # <<>>
            sum == NumSum([i \in 1..Len(vals) |-> vals[i][1]])
        IN  /\ r # <<>>
            /\ y \notin DOMAIN rec => r[1].budget = <<>>
            /\ y \in DOMAIN rec /\ allValued =>
                 r[1].budget = IF WithinTolerance(Sub(rec[y], sum)) THEN <<>> ELSE <<rec[y]>>
            /\ y \in DOMAIN rec /\ ~allValued => r[1].budget = <<rec[y]>>
            /\ y \in DOMAIN rec /\ rec[y] = Limb(2, 100) =>
                 /\ vals = << <<Limb(2, 60)>>, <<Limb(2, 40)>> >> => r[1].budget = <<>>
                 /\ vals = << <<Limb(2, 60)>>, <<Limb(2, 30)>> >> => r[1].budget = <<rec[y]>>

\* a document is written and some parent's value, half a millionth off its valued
\* children's sum, was suppressed
C3_Witness ==
    /\ Len(written) >= 1
    /\ \E n \in Built :
         LET r == filter_for_year(Nested(tree, n), Y1, <<>>)
         IN  /\ Y1 \in DOMAIN tree[n].budget
             /\ tree[n].budget[Y1] = NearBelow
             /\ r[1].children # <<>>
             /\ r[1].budget = <<>>

\* the names of the nodes below document node d
RECURSIVE NamesBelow(_)
NamesBelow(d) ==
    UNION {{d.children[i].name} \cup NamesBelow(d.children[i]) : i \in 1..Len(d.children)}
\* every node below d has a value or a child
RECURSIVE NoEmptyNodeBelow(_)
NoEmptyNodeBelow(d) ==
    \A i \in 1..Len(d.children) :
        /\ d.children[i].budget # <<>> \/ d.children[i].children # <<>>
        /\ NoEmptyNodeBelow(d.children[i])
\* node n has a recorded value for y, or a node below it has
RECURSIVE HasValueWithin(_, _)
HasValueWithin(n, y) ==
    \/ y \in DOMAIN tree[n].budget
    \/ \E i \in 1..Len(tree[n].children) : HasValueWithin(tree[n].children[i], y)

\* C4: when the export has returned, in every written document every node below
\* the root has a value or a child, and the nodes that appear are exactly those
\* that have a recorded value for the year or a descendant that has one (rows are
\* named apart, none excluded).
C4_NoEmptyNode ==
    pc = "exported" => \A i \in 1..Len(written) :
        /\ NoEmptyNodeBelow(written[i].doc)
        /\ NamesBelow(written[i].doc) =
             {tree[n].name : n \in {m \in Reachable \ {0} : HasValueWithin(m, written[i].year)}}

\* a document is written from a tree where a valueless node had only a valueless
\* child, and some other node made it into the document
C4_Witness ==
    /\ Len(written) >= 1
    /\ written[1].doc.children # <<>>
    /\ \E n \in Built :
         /\ tree[n].children # <<>>
         /\ ~HasValueWithin(n, written[1].year)

\* the document d read as a tree whose recorded values for y are d's values
RECURSIVE AsTree(_, _)
AsTree(d, y) ==
    [name |-> d.name, unit |-> <<>>,
     budget |-> [yy \in (IF d.budget = <<>> THEN {} ELSE {y}) |-> d.budget[1]],
     children |-> [i \in 1..Len(d.children) |-> AsTree(d.children[i], y)]]

\* C8: when the export has returned, projecting a written document again for its
\* own year, its emitted values read as recorded values, gives the same document.
C8_Idempotent ==
    pc = "exported" => \A i \in 1..Len(written) :
        filter_for_year(AsTree(written[i].doc, written[i].year), written[i].year, <<>>)
          = <<written[i].doc>>

\* a written document from which the projection dropped a node and in which a
\* node with children carries no value
C8_Witness ==
    /\ Len(written) >= 1
    /\ written[1].year = Y1
    /\ Cardinality(NamesBelow(written[1].doc)) < Cardinality(Built)
    /\ \E n \in Built :
         /\ Y1 \in DOMAIN tree[n].budget
         /\ filter_for_year(Nested(tree, n), Y1, <<>>)[1].budget = <<>>

\* ------------------------------------------------------ year columns

MaxYears == 2

Labels == {Y1, Y2, Y3, Y4, Y5}
\* the lists of up to MaxYears different labels
RECURSIVE ListsOf(_, _)
ListsOf(S, n) ==
    IF n = 0 THEN {<<>>}
    ELSE LET shorter == ListsOf(S, n - 1)
         IN  shorter \cup {Append(l, y) : l \in shorter, y \in S}
YearLists ==
    {l \in ListsOf(Labels, MaxYears) :
        l # <<>> /\ \A i, j \in 1..Len(l) : i # j => l[i] # l[j]}

\* one row below the header: every unit, and cells that differ by column
YearRows ==
    {Row(0, Text(S_Health), u, c1, Number(Whole(20)), c3, Number(Whole(40))) :
        u \in {NoneCell, Text(S_b), Text(S_k), Text(S_t), Text(S_percent)},
        c1 \in {Number(Whole(10)), NoneCell},
        c3 \in {Number(Whole(30)), Text(S_na)}}

InitYears ==
    /\ \E row \in YearRows :
         sheets = [budget |-> <<HeaderRow(NoneCell), row>>, revenue |-> <<>>]
    /\ \E l \in YearLists : years = l
    /\ phase = "budget"
    /\ pc = "find_header"
    /\ InitCommon

SpecYears == InitYears /\ [][NextBuild]_vars

\* the columns (counted from 1) whose trimmed header text is y
ColumnsLabelled(y) ==
    {c \in 1..Len(headers) : headers[c].t = "text" /\ Strip(headers[c].s) = y}

\* C2: under every supplied years list, a built node stores under label y the
\* scaled number of its row's cell in the column whose header reads y, and nothing
\* when that cell holds no number or when no header reads y.
C2_ValueUnderItsLabel ==
    pc \in {"rows", "add_siblings", "export", "exported"} =>
      \A n \in Built : \A y \in YearSet :
        LET row == ws[origin[n]]
            cols == ColumnsLabelled(y)
        IN  /\ cols = {} => y \notin DOMAIN tree[n].budget
            /\ \A c \in cols :
                 IF row.cells[c].t = "num"
                 THEN /\ y \in DOMAIN tree[n].budget
                      /\ tree[n].budget[y] =
                           Scale(row.cells[c].v, MultiplierExp(RowUnit(row)))
                 ELSE y \notin DOMAIN tree[n].budget

\* ------------------------------------------------------ the revenue tree

\* name and the two year cells of the rows below the withholding-taxes row:
\* gross 1000 with no second year, refunds -150, another line 7
SubPayloads ==
    {[name |-> S_Gross, c1 |-> Number(Whole(1000)), c2 |-> NoneCell],
     [name |-> S_Refunds, c1 |-> Number(Whole(-150)), c2 |-> Number(Whole(-150))],
     [name |-> S_Other, c1 |-> Number(Whole(7)), c2 |-> Number(Whole(7))]}

\* the withholding-taxes row at indent d (below a group row when d = 1), then rows
\* one or two levels below it
RevenueSheet(d, rel, pay) ==
    <<HeaderRow(NoneCell)>>
    \o (IF d = 0 THEN <<>>
        ELSE <<Row(0, Text(S_Other), NoneCell, NoneCell, NoneCell, NoneCell, NoneCell)>>)
    \o <<Row(d, Text(S_IOWT), NoneCell, Number(Whole(857)), NoneCell, NoneCell, NoneCell)>>
    \o [k \in DOMAIN rel |->
          Row(d + rel[k], Text(pay[k].name), NoneCell, pay[k].c1, pay[k].c2,
              NoneCell, NoneCell)]

InitRevenue ==
    /\ \E d \in {0, 1} : \E n \in 0..MaxSubRows :
         \E rel \in [1..n -> {1, 2}], pay \in [1..n -> SubPayloads] :
            sheets = [budget |-> <<>>, revenue |-> RevenueSheet(d, rel, pay)]
    /\ phase = "revenue"
    /\ pc = "find_header"
    /\ years = <<Y1, Y2>>
    /\ InitCommon

\* lines 232-282: the revenue tree built, combined and exported
NextRevenue ==
    \/ FindHeader
    \/ ProcessRow
    \/ BuildReturn
    \/ Combine
    \/ AddSiblings
    \/ ExportYear
    \/ ExportReturn

SpecRevenue == InitRevenue /\ [][NextRevenue]_vars

\* the positions of the children of c named nm
NamedAt(t, c, nm) == {i \in 1..Len(t[c].children) : t[t[c].children[i]].name = nm}
Last(S) == CHOOSE i \in S : \A j \in S : j <= i
Elems(q) == {q[i] : i \in 1..Len(q)}

\* C7: when the combinator runs, every node named "Individuals and other withholding
\* taxes" below the root that has a child named "Gross income tax withholding" and
\* one named "Individuals refunds" ends with: those two (the last of each name)
\* gone from its children, no child of either name left when each name occurred
\* once, a new childless "Net income tax" as last child whose budget is, for every
\* year, gross + refunds with a missing value as 0 (1000 and -150 give 850), and
\* all its other children in their old order.
C7_NetIncomeTax ==
    [][pc = "combine" =>
        \A c \in Descendants(tree, 0) \ {0} :
          (tree[c].name = S_IOWT /\ NamedAt(tree, c, S_Gross) # {}
                                 /\ NamedAt(tree, c, S_Refunds) # {}) =>
            LET old == tree[c].children
                new == tree'[c].children
                g == old[Last(NamedAt(tree, c, S_Gross))]
                r == old[Last(NamedAt(tree, c, S_Refunds))]
                net == new[Len(new)]
                rest == SubSeq(new, 1, Len(new) - 1)
            IN  /\ g \notin Elems(new) /\ r \notin Elems(new)
                /\ (Cardinality(NamedAt(tree, c, S_Gross)) = 1
                    /\ Cardinality(NamedAt(tree, c, S_Refunds)) = 1) =>
                      NamedAt(tree', c, S_Gross) \cup NamedAt(tree', c, S_Refunds) = {}
                /\ net \notin DOMAIN tree
                /\ tree'[net].name = S_Net
                /\ tree'[net].children = <<>>
                /\ DOMAIN tree'[net].budget = YearSet
                /\ \A y \in YearSet :
                     tree'[net].budget[y] =
                       Add(IF y \in DOMAIN tree[g].budget THEN tree[g].budget[y] ELSE Zero,
                           IF y \in DOMAIN tree[r].budget THEN tree[r].budget[y] ELSE Zero)
                /\ (Y1 \in DOMAIN tree[g].budget /\ tree[g].budget[Y1] = Limb(2, 1000)
                    /\ Y1 \in DOMAIN tree[r].budget /\ tree[r].budget[Y1] = Limb(2, -150)) =>
                      tree'[net].budget[Y1] = Limb(2, 850)
                /\ Elems(rest) = Elems(old) \ {g, r}
                /\ Len(rest) = Len(old) - 2
                /\ \A i, j \in 1..Len(rest) : i < j =>
                     \E a, b \in 1..Len(old) : a < b /\ old[a] = rest[i] /\ old[b] = rest[j]
    ]_vars

\* the combinator has run on a tree where the withholding-taxes node, itself below
\* a group node, had the two children and two more: the net node is its last child
C7_Witness ==
    /\ pc = "add_siblings"
    /\ \E c \in Descendants(tree, 0) \ {0} :
         /\ tree[c].name = S_IOWT
         /\ ParentOf(tree, c) # 0
         /\ Len(tree[c].children) >= 3
         /\ tree[tree[c].children[Len(tree[c].children)]].name = S_Net
         /\ tree[tree[c].children[Len(tree[c].children)]].budget[Y1] = Limb(2, 850)

\* ------------------------------------------------------ the whole run

\* a row with three year labels only
ThreeLabelRow == Row(0, NoneCell, NoneCell, Text(Y1), Text(Y2), Text(Y3), NoneCell)
DataRow(indent, name, c) ==
    Row(indent, Text(name), NoneCell, Number(Whole(c)), NoneCell, NoneCell, Number(Whole(c)))

\* sheets with the header in the third row, with no row of more than three labels,
\* with the header below the rows that are scanned, with the header first, and one
\* of two rows only
RunSheets ==
    {<<TitleRow, BlankRow, HeaderRow(NoneCell), DataRow(0, S_Health, 100),
       DataRow(1, S_Other, 60)>>,
     <<TitleRow, BlankRow, HeaderRow(Text(S_Item)), DataRow(1, S_Health, 5)>>,
     <<TitleRow, BlankRow, ThreeLabelRow, DataRow(0, S_Health, 100)>>,
     [k \in 1..HeaderScanRows |-> IF k = YearLabelRowIdx + 1 THEN ThreeLabelRow ELSE BlankRow]
        \o <<HeaderRow(NoneCell), DataRow(0, S_Health, 100)>>,
     <<HeaderRow(NoneCell), DataRow(0, S_Health, 100), DataRow(1, S_Other, 60)>>,
     <<HeaderRow(NoneCell), DataRow(0, S_Health, 100)>>}

InitRun ==
    /\ \E b \in RunSheets, r \in RunSheets : sheets = [budget |-> b, revenue |-> r]
    /\ phase = "budget"
    /\ pc = "read_years"
    /\ years = <<>>
    /\ InitCommon

\* lines 183-286: the script from the first sheet's year labels to its end
NextRun ==
    \/ ReadYears
    \/ FindHeader
    \/ ProcessRow
    \/ BuildReturn
    \/ Combine
    \/ AddSiblings
    \/ ExportYear
    \/ ExportReturn
    \/ StartRevenue
    \/ Finish

SpecRun == InitRun /\ [][NextRun]_vars

\* among a sheet's first 20 rows, one holds more than 3 year-label cells
HasHeaderRow(sh) ==
    \E r \in 1..Len(sh) : r <= HeaderScanRows /\ YearCellCount(sh[r]) > MinYearCells

\* C5: the run does not complete when a sheet has no header row among its first 20
\* rows, and when it ends with the header-not-found error no document has been
\* written for either sheet.
C5_NoPartialOutput ==
    /\ pc = "done" => HasHeaderRow(sheets.budget) /\ HasHeaderRow(sheets.revenue)
    /\ (pc = "raised" /\ error = "RuntimeError") => written = <<>>

\* ------------------------------------------------------ the exclusion filter

ExcludeNames ==
    {<<"T","o","t","a","l"," ","e","x","p","e","n","s","e","s">>,
     <<"S","u","b","t","o","t","a","l">>,
     <<"t","o","t","a","l">>,
     <<"T","O","T","A","L">>,
     <<"T","o","t","a","l","s"," ","a","n","d"," ","t","o","t","a","l">>,
     <<"H","e","a","l","t","h">>,
     <<"C","a","s","h"," ","(","u","n","d","e","r","l","y","i","n","g"," ","b","a","s","i","s",")">>,
     <<"C","a","s","h"," ","(","U","n","d","e","r","l","y","i","n","g"," ","b","a","s","i","s",")">>,
     <<"O","t","h","e","r"," ","t","a","x","e","s">>,
     <<"A","S","L">>,
     <<"G","r","a","n","d"," ","T","o","t","a","l">>}
ExcludeUnits ==
    {<<>>} \cup {<<u>> : u \in
    {<<"$","m">>,
     <<"A","S","L">>,
     <<"a","s","l">>,
     <<" ","A","S","L"," ">>,
     <<" ","a","s","l"," ">>,
     <<"A","s","l">>,
     <<"A","S","L","X">>,
     <<"A"," ","S","L">>,
     <<"%">>}}

InitExclude ==
    /\ sheets = [budget |-> <<>>, revenue |-> <<>>]
    /\ phase = "budget"
    /\ pc = "call"
    /\ years = <<>>
    /\ InitCommon

NextExclude == CallShouldExclude(ExcludeNames, ExcludeUnits)

SpecExclude == InitExclude /\ [][NextExclude]_vars

\* sub occurs in s, letter case kept
Occurs(sub, s) ==
    \E i \in 1..Len(s) : i + Len(sub) - 1 <= Len(s) /\ SubSeq(s, i, i + Len(sub) - 1) = sub
\* u is "ASL" once trimmed, whatever the case of its letters
IsASL(u) == u # <<>> /\ Lower(Strip(u[1])) = <<"a","s","l">>

\* C6 as the specification has it: the result is true exactly when the name holds
\* "Total" in that very case or "(underlying basis)", or the unit is ASL.
C6_TotalCaseSensitive ==
    ret <=> \/ Occurs(S_Total, arg_name)
            \/ Occurs(S_underlying, arg_name)
            \/ IsASL(arg_unit)

\* C6: the result is true exactly when the name holds "Total" or "total" or
\* "(underlying basis)", or the unit is ASL once trimmed and whatever its case; a
\* name with the word in any other case ("TOTAL") is not excluded for it.
C6_ShouldExclude ==
    ret <=> \/ Occurs(<<"T","o","t","a","l">>, arg_name)
            \/ Occurs(<<"t","o","t","a","l">>, arg_name)
            \/ Occurs(S_underlying, arg_name)
            \/ IsASL(arg_unit)

\* should_exclude has returned true for a name that holds the word in lower case
\* only, with no unit
C6_Witness ==
    /\ ret = TRUE
    /\ arg_unit = <<>>
    /\ Occurs(S_total, arg_name)
    /\ ~Occurs(S_Total, arg_name)
    /\ ~Occurs(S_underlying, arg_name)

====
